---- MODULE Spec2Model ----
(***************************************************************************)
(* Rate limiter middleware (app/middlewares/rate_limiter.py) in front of   *)
(* the register endpoint (app/api/auth/auth_router.py,                     *)
(* app/services/auth_service.py, app/repository/user_repository.py).       *)
(*                                                                         *)
(* Every request is a process.  Each `await` of the Python code is one     *)
(* step: the Redis commands GET, SET ex, INCR, TTL of _check_rate_limit    *)
(* and the two database round trips of AuthService.register.  Time passes  *)
(* in whole seconds (Tick) and expires Redis keys.                         *)
(*                                                                         *)
(* SpecAuth is the credential/session service on its own (AuthService      *)
(* register, login, login_access, logout, the get_current_user guard and   *)
(* UserService.delete) with the tokens of app/core/security.py and a clock *)
(* `now` in the unit of the token lifetimes.                               *)
(***************************************************************************)
EXTENDS Integers, FiniteSets, Sequences, TLC

\* ---------------------------------------------------------------- bounds
NumReq == 2          \* request slots that may be in flight together
Limit  == 2          \* self.limit  (ANTI_DDOS_RATE_LIMIT, scaled down)
Window == 2          \* self.window (ANTI_DDOS_RATE_WINDOW, scaled down)

AccessTtl  == 1       \* ACCESS_TOKEN_EXPIRE_MINUTES, scaled down to clock units
RefreshTtl == 2       \* REFRESH_TOKEN_EXPIRE_MINUTES, scaled down to clock units
MaxNow     == 3       \* the clock `now` stops here
MaxUsers   == 2       \* user ids that are handed out
MaxHeld    == 1       \* tokens the client keeps
Sub        == 2       \* clock ticks in a second (microseconds, scaled down)
MaxTick    == 3       \* the clock `tick` stops here

Reqs   == 1..NumReq

\* ---------------------------------------------------------------- inputs
Hosts  == {"10.0.0.1"}                  \* addresses a request can come from
Emails == {"a@x.com"}                   \* identifiers a register call can carry
Path   == "/auth/register"              \* request.url.path
Passwords == {"secret1", "wrong"}       \* data.password of a request body

\* Optional[...] of the Python code: None is <<>>, a value v is <<v>>.
None     == <<>>
Some(v)  == <<v>>
Val(o)   == o[1]

\* Replies of the Redis TTL command for a key that does not exist and for
\* a key that has no expiry.
KeyMissing == -2
NoExpiry   == -1

VARIABLES
  redis,        \* counter store: key -> [value, ttl]; ttl = KeyMissing when absent
  users,        \* users table: email -> number of rows holding that email
  pc,           \* position of each request
  ip,           \* result of _get_client_ip
  email,        \* data.email of the request body
  current,      \* local `current` of _check_rate_limit
  ttl,          \* local `ttl` of dispatch
  status,       \* status code of the response (0: none yet)
  raised,       \* exception raised inside AuthService.register
  storeFailed,  \* a Redis command of this request raised
  touched,      \* this request issued a Redis command
  handled,      \* call_next(request) was invoked for this request
  accepted,     \* key -> requests admitted by _check_rate_limit since the
                \* counter of that key last expired
  now,          \* datetime.now(timezone.utc), in whole clock units
  rows,         \* users table: email -> the row find_by_email returns
  nextId,       \* the id the next inserted row gets (uuid4: always fresh)
  held,         \* tokens the client received and kept
  route,        \* the endpoint the request is for
  password,     \* data.password of the request body
  cookieIn,     \* request.cookies.get("refresh_token") / the bearer token
  subject,      \* local user_id of _get_new_tokens / get_current_user
  body,         \* access_token of the AuthResponseDto returned
  setCookie,    \* what the call did to the refresh cookie of the response
  effects,      \* what the call did: "store", "hash", "verify", "decode",
                \* "issue"
  tick,         \* datetime.now(timezone.utc) in ticks, Sub ticks a second
  ttlCfg,       \* the token lifetimes the configuration loader returned
  minted,       \* the last token pair created, with the cookie set for it
  request       \* the headers and the peer of the request _get_client_ip
                \* was called with

authGlobal == <<now, rows, nextId, held>>

authReq == <<route, password, cookieIn, subject, body, setCookie, effects>>

pureVars == <<tick, ttlCfg, minted, request>>

vars == <<redis, users, pc, ip, email, current, ttl, status, raised,
          storeFailed, touched, handled, accepted, authGlobal, authReq,
          pureVars>>

reqVars == <<ip, email, current, ttl, status, raised, storeFailed,
             touched, handled>>

\* ------------------------------------------------ _get_client_ip (47-73)
\* forwarded_for is the X-Forwarded-For header already split at ",": a
\* sequence of stripped entries, None when the header is absent, and
\* <<"">> stands for the empty header value (falsy in Python).
GetClientIp(forwarded_for, real_ip, client) ==
  IF forwarded_for # None /\ forwarded_for # Some("")
  THEN forwarded_for[1]
  ELSE IF real_ip # None /\ real_ip # Some("")
       THEN Val(real_ip)
       ELSE IF client = None THEN "unknown" ELSE Val(client)

\* a header carries whatever text the client wrote into it
HeaderTexts == Hosts \cup {"unknown"}

ForwardedValues == {None} \cup {Some(h) : h \in HeaderTexts}
RealIpValues    == {None} \cup {Some(h) : h \in HeaderTexts}
ClientValues    == {None} \cup {Some(h) : h \in Hosts}

\* dispatch, line 128: rate limiting is skipped for this identifier
SkipLimiterMut(addr) == FALSE
SkipLimiter(addr) == addr = "unknown"

\* ------------------------------------------ _create_rate_limit_key (86)
CreateRateLimitKey(addr, path) == <<"rate_limit", addr, path>>

Keys == {CreateRateLimitKey(h, Path) : h \in Hosts}

KeyOf(r) == CreateRateLimitKey(ip[r], Path)

\* ------------------------------------------------------- Redis commands
Absent == [value |-> 0, ttl |-> KeyMissing]

Exists(k) == redis[k].ttl # KeyMissing

\* GET key
RedisGet(k) == IF Exists(k) THEN Some(redis[k].value) ELSE None

\* SET key 1 EX window: the value and the expiry are both replaced
RedisSetEx(k, v, ex) == [redis EXCEPT ![k] = [value |-> v, ttl |-> ex]]

\* INCR key: an absent key counts as 0 and is created without an expiry;
\* the expiry of an existing key is kept
RedisIncr(k) ==
  IF Exists(k)
  THEN [redis EXCEPT ![k].value = @ + 1]
  ELSE [redis EXCEPT ![k] = [value |-> 1, ttl |-> NoExpiry]]

\* TTL key
RedisTtl(k) == redis[k].ttl

\* --------------------------------------- _check_rate_limit, lines 103-113
\* the branch taken after `current = await self.redis.get(key)`
CheckBranchMut(cur) ==
  IF cur = None THEN "set"
  ELSE IF Val(cur) <= Limit THEN "incr" ELSE "ttl"
CheckBranch(cur) ==
  IF cur = None THEN "set"
  ELSE IF Val(cur) < Limit THEN "incr" ELSE "ttl"

\* dispatch, lines 150-155: where a request continues after a Redis command
\* raised inside the try block
AfterStoreErrorMut == "error"
AfterStoreError == "call_next"

\* dispatch, lines 140-148: where a request continues once
\* _check_rate_limit returned a ttl that is not None
AfterRejectMut == "call_next"
AfterReject == "done"

\* ------------------------------------------------------------- users table
\* the unique constraint on users.email (database.py 80-82): inserting a
\* row whose email is already present is refused
UniqueViolationMut(tbl, e) == FALSE
UniqueViolation(tbl, e) == tbl[e] > 0

\* UserRepository.find_by_email (45-59)
FindByEmailMut(e) == None
FindByEmail(e) == IF users[e] > 0 THEN Some(e) ELSE None

\* UserRepository.find_by_id (61-75)
FindByIdMut(id) == Some(id)
FindById(id) ==
  IF \E e \in Emails : rows[e] # None /\ Val(rows[e]).id = id
  THEN Some(id) ELSE None

\* ------------------------------------------------- app/core/security.py
\* A token is the signed string of the claims {"id", "exp"}; sig tells
\* whether the string parses and whether its signature verifies against
\* JWT_SECRET_KEY.  jwt.encode is deterministic: equal claims give the
\* equal string.
CreateToken(id, delta, t) == [id |-> id, exp |-> t + delta, sig |-> "ok"]

CreateAccessToken(id, t) == CreateToken(id, AccessTtl, t)

CreateRefreshToken(id, t) == CreateToken(id, RefreshTtl, t)

\* jwt.decode of python-jose raises ExpiredSignatureError when exp < now
ExpiredEarly(tok, t) == tok.exp <= t + 1
Expired(tok, t) == tok.exp < t

\* decode_token (112-129): the claims, or None on any error
DecodeTokenMut(tok, t) ==
  IF tok.sig # "ok" THEN None
  ELSE IF tok.exp + 1 = t THEN None
  ELSE Some([id |-> tok.id, exp |-> tok.exp])
DecodeToken(tok, t) ==
  IF tok.sig # "ok" THEN None
  ELSE IF Expired(tok, t) THEN None
  ELSE Some([id |-> tok.id, exp |-> tok.exp])

\* hash_password (132-155) and verify_password (158-178): bcrypt
HashPassword(p) == <<"bcrypt", p>>

VerifyPasswordMut(plain, hashed) == TRUE
VerifyPassword(plain, hashed) ==
  IF plain = "" \/ hashed = <<>> THEN FALSE ELSE hashed = HashPassword(plain)

\* tokens a client can send: the ones it holds, a token signed with
\* another key and a string that is no token
Forged    == [id |-> 1, exp |-> MaxNow + RefreshTtl, sig |-> "bad"]
Malformed == [id |-> 0, exp |-> 0, sig |-> "malformed"]

TokenOf(h) == [id |-> h.id, exp |-> h.exp, sig |-> "ok"]

Presentable == {TokenOf(h) : h \in held} \cup {Forged, Malformed}

\* status the routers of auth_router.py answer with (lines 69-76, 108-114,
\* 146-152, 180-186) and the 401 of UnauthorizedError for the guard
RouterStatus(p, exc) ==
  CASE p = "/auth/register"           -> IF exc = "none" THEN 201 ELSE 500
    [] p = "/auth/login"              -> IF exc = "none" THEN 200 ELSE 401
    [] p = "/auth/login/access-token" -> IF exc = "none" THEN 200 ELSE 401
    [] p = "/auth/logout"             -> IF exc = "none" THEN 200 ELSE 500
    [] OTHER                          -> IF exc = "none" THEN 200 ELSE 401

\* ------------------------------------------ _load_security_config (31-40)
\* An environment value is absent (or empty) or a string that int() parses;
\* any other string stops the program at start.
EnvValues == {None} \cup {Some(n) : n \in {-1, 0, 1}}

IntOr(env, default) == IF env = None THEN default ELSE Val(env)

LoadSecurityConfig(access_env, refresh_env) ==
  [access_minutes |-> IntOr(access_env, 15),
   refresh_days   |-> IntOr(refresh_env, 7)]

AccessTokenExpireMinutes(cfg) == cfg.access_minutes

RefreshTokenExpireMinutes(cfg) == cfg.refresh_days * 24 * 60

\* timedelta(minutes = m) in seconds
Minutes(m) == m * 60

\* the whole seconds of a clock reading: jwt.encode stores exp as
\* timegm(expire.utctimetuple()), which drops the microseconds
Seconds(t) == t \div Sub

\* ------------------------------------------------------------------ Init
Constructed ==
  /\ redis = [k \in Keys |-> Absent]
  /\ users = [e \in Emails |-> 0]
  /\ pc = [r \in Reqs |-> "idle"]
  /\ ip = [r \in Reqs |-> "unknown"]
  /\ email = [r \in Reqs |-> "a@x.com"]
  /\ current = [r \in Reqs |-> None]
  /\ ttl = [r \in Reqs |-> None]
  /\ status = [r \in Reqs |-> 0]
  /\ raised = [r \in Reqs |-> "none"]
  /\ storeFailed = [r \in Reqs |-> FALSE]
  /\ touched = [r \in Reqs |-> FALSE]
  /\ handled = [r \in Reqs |-> FALSE]
  /\ accepted = [k \in Keys |-> 0]
  /\ now = 0
  /\ rows = [e \in Emails |-> None]
  /\ nextId = 1
  /\ held = {}
  /\ route = [r \in Reqs |-> Path]
  /\ password = [r \in Reqs |-> ""]
  /\ cookieIn = [r \in Reqs |-> None]
  /\ subject = [r \in Reqs |-> None]
  /\ body = [r \in Reqs |-> None]
  /\ setCookie = [r \in Reqs |-> None]
  /\ effects = [r \in Reqs |-> {}]
  /\ tick = 0
  /\ minted = None
  /\ request = [r \in Reqs |-> None]

Init ==
  /\ Constructed
  /\ ttlCfg = LoadSecurityConfig(None, None)

\* --------------------------------------------------------------- actions
\* A request arrives; dispatch resolves the client (lines 127-135).
Begin(r) ==
  /\ pc[r] = "idle"
  /\ \E f \in ForwardedValues, ri \in RealIpValues, c \in ClientValues,
        e \in Emails :
       LET addr == GetClientIp(f, ri, c) IN
         /\ ip' = [ip EXCEPT ![r] = addr]
         /\ email' = [email EXCEPT ![r] = e]
         /\ pc' = [pc EXCEPT ![r] =
                     IF SkipLimiter(addr) THEN "call_next" ELSE "get"]
  /\ route' = [route EXCEPT ![r] = Path]
  /\ password' = [password EXCEPT ![r] = "secret1"]
  /\ UNCHANGED <<redis, users, current, ttl, status, raised, storeFailed,
                 touched, handled, accepted>>
  /\ UNCHANGED <<authGlobal, cookieIn, subject, body, setCookie, effects>>
  /\ UNCHANGED pureVars

\* A Redis command of request r raises: the except clause of dispatch.
StoreError(r) ==
  /\ pc[r] \in {"get", "set", "incr", "ttl"}
  /\ storeFailed' = [storeFailed EXCEPT ![r] = TRUE]
  /\ touched' = [touched EXCEPT ![r] = TRUE]
  /\ pc' = [pc EXCEPT ![r] = AfterStoreError]
  /\ status' = [status EXCEPT ![r] =
                  IF AfterStoreError = "call_next" THEN @ ELSE 500]
  /\ current' = [current EXCEPT ![r] = None]   \* the local goes out of scope
  /\ UNCHANGED <<redis, users, ip, email, ttl, raised, handled, accepted>>
  /\ UNCHANGED <<authGlobal, authReq>>
  /\ UNCHANGED pureVars

\* line 101: current = await self.redis.get(key)
Get(r) ==
  /\ pc[r] = "get"
  /\ current' = [current EXCEPT ![r] = RedisGet(KeyOf(r))]
  /\ pc' = [pc EXCEPT ![r] = CheckBranch(RedisGet(KeyOf(r)))]
  /\ touched' = [touched EXCEPT ![r] = TRUE]
  /\ UNCHANGED <<redis, users, ip, email, ttl, status, raised, storeFailed,
                 handled, accepted>>
  /\ UNCHANGED <<authGlobal, authReq>>
  /\ UNCHANGED pureVars

\* lines 105-106: await self.redis.set(key, 1, ex=self.window); return None
Set(r) ==
  /\ pc[r] = "set"
  /\ redis' = RedisSetEx(KeyOf(r), 1, Window)
  /\ accepted' = [accepted EXCEPT ![KeyOf(r)] = @ + 1]
  /\ pc' = [pc EXCEPT ![r] = "call_next"]
  /\ current' = [current EXCEPT ![r] = None]   \* the local goes out of scope
  /\ UNCHANGED <<users, ip, email, ttl, status, raised, storeFailed,
                 touched, handled>>
  /\ UNCHANGED <<authGlobal, authReq>>
  /\ UNCHANGED pureVars

\* lines 109-110: await self.redis.incr(key); return None
Incr(r) ==
  /\ pc[r] = "incr"
  /\ redis' = RedisIncr(KeyOf(r))
  /\ accepted' = [accepted EXCEPT ![KeyOf(r)] = @ + 1]
  /\ pc' = [pc EXCEPT ![r] = "call_next"]
  /\ current' = [current EXCEPT ![r] = None]   \* the local goes out of scope
  /\ UNCHANGED <<users, ip, email, ttl, status, raised, storeFailed,
                 touched, handled>>
  /\ UNCHANGED <<authGlobal, authReq>>
  /\ UNCHANGED pureVars

\* line 113 and lines 140-148: return await self.redis.ttl(key); the 429
Ttl(r) ==
  /\ pc[r] = "ttl"
  /\ ttl' = [ttl EXCEPT ![r] = Some(RedisTtl(KeyOf(r)))]
  /\ status' = [status EXCEPT ![r] = IF AfterReject = "done" THEN 429 ELSE @]
  /\ pc' = [pc EXCEPT ![r] = AfterReject]
  /\ current' = [current EXCEPT ![r] = None]   \* the local goes out of scope
  /\ UNCHANGED <<redis, users, ip, email, raised, storeFailed, touched,
                 handled, accepted>>
  /\ UNCHANGED <<authGlobal, authReq>>
  /\ UNCHANGED pureVars

\* line 155 / 130: response = await call_next(request); the register
\* endpoint runs AuthService.register up to its first database round trip
\* (auth_service.py 123-126), the router turns any exception into a 500
\* (auth_router.py 69-76).
CallNext(r) ==
  /\ pc[r] = "call_next"
  /\ handled' = [handled EXCEPT ![r] = TRUE]
  /\ effects' = [effects EXCEPT ![r] = @ \cup {"store"}]
  /\ IF FindByEmail(email[r]) # None
     THEN /\ raised' = [raised EXCEPT ![r] = "ConflictError"]
          /\ status' = [status EXCEPT ![r] =
                          RouterStatus(route[r], "ConflictError")]
          /\ pc' = [pc EXCEPT ![r] = "done"]
     ELSE /\ pc' = [pc EXCEPT ![r] = "create"]
          /\ UNCHANGED <<raised, status>>
  /\ UNCHANGED <<redis, users, ip, email, current, ttl, storeFailed,
                 touched, accepted>>
  /\ UNCHANGED <<authGlobal, route, password, cookieIn, subject, body,
                 setCookie>>
  /\ UNCHANGED pureVars

\* auth_service.py 128-137 with UserRepository.create (24-43): the INSERT
\* is refused by the unique constraint when the email is already present.
Create(r) ==
  /\ pc[r] = "create"
  /\ IF UniqueViolation(users, email[r])
     THEN /\ raised' = [raised EXCEPT ![r] = "IntegrityError"]
          /\ status' = [status EXCEPT ![r] =
                          RouterStatus(route[r], "IntegrityError")]
          /\ effects' = [effects EXCEPT ![r] = @ \cup {"hash", "store"}]
          /\ UNCHANGED <<users, rows, nextId, body, setCookie>>
     ELSE /\ users' = [users EXCEPT ![email[r]] = @ + 1]
          /\ rows' = [rows EXCEPT ![email[r]] =
                        Some([id |-> nextId,
                              password |-> HashPassword(password[r])])]
          /\ nextId' = nextId + 1
          /\ body' = [body EXCEPT ![r] = Some(CreateAccessToken(nextId, now))]
          /\ setCookie' = [setCookie EXCEPT ![r] =
                             <<"set", CreateRefreshToken(nextId, now)>>]
          /\ effects' = [effects EXCEPT ![r] =
                           @ \cup {"hash", "store", "issue"}]
          /\ status' = [status EXCEPT ![r] = RouterStatus(route[r], "none")]
          /\ UNCHANGED raised
  /\ pc' = [pc EXCEPT ![r] = "done"]
  /\ UNCHANGED <<redis, ip, email, current, ttl, storeFailed, touched,
                 handled, accepted>>
  /\ UNCHANGED <<now, held, route, password, cookieIn, subject>>
  /\ UNCHANGED pureVars

\* The response has been sent; the slot is free for the next request.
Return(r) ==
  /\ pc[r] \in {"done", "error"}
  /\ pc' = [pc EXCEPT ![r] = "idle"]
  /\ ip' = [ip EXCEPT ![r] = "unknown"]
  /\ email' = [email EXCEPT ![r] = "a@x.com"]
  /\ current' = [current EXCEPT ![r] = None]
  /\ ttl' = [ttl EXCEPT ![r] = None]
  /\ status' = [status EXCEPT ![r] = 0]
  /\ raised' = [raised EXCEPT ![r] = "none"]
  /\ storeFailed' = [storeFailed EXCEPT ![r] = FALSE]
  /\ touched' = [touched EXCEPT ![r] = FALSE]
  /\ handled' = [handled EXCEPT ![r] = FALSE]
  /\ route' = [route EXCEPT ![r] = Path]
  /\ password' = [password EXCEPT ![r] = ""]
  /\ cookieIn' = [cookieIn EXCEPT ![r] = None]
  /\ subject' = [subject EXCEPT ![r] = None]
  /\ body' = [body EXCEPT ![r] = None]
  /\ setCookie' = [setCookie EXCEPT ![r] = None]
  /\ effects' = [effects EXCEPT ![r] = {}]
  /\ UNCHANGED <<redis, users, accepted, authGlobal>>
  /\ UNCHANGED pureVars

\* One second passes: Redis expires the keys whose time is up.
Expiring(k) == redis[k].ttl = 1

Tick ==
  /\ \E k \in Keys : redis[k].ttl >= 1
  /\ redis' = [k \in Keys |->
                 IF Expiring(k) THEN Absent
                 ELSE IF redis[k].ttl > 1
                      THEN [redis[k] EXCEPT !.ttl = @ - 1]
                      ELSE redis[k]]
  /\ accepted' = [k \in Keys |-> IF Expiring(k) THEN 0 ELSE accepted[k]]
  /\ UNCHANGED <<users, pc, reqVars, authGlobal, authReq>>
  /\ UNCHANGED pureVars

Next ==
  \/ \E r \in Reqs : Begin(r)
  \/ \E r \in Reqs : StoreError(r)
  \/ \E r \in Reqs : Get(r)
  \/ \E r \in Reqs : Set(r)
  \/ \E r \in Reqs : Incr(r)
  \/ \E r \in Reqs : Ttl(r)
  \/ \E r \in Reqs : CallNext(r)
  \/ \E r \in Reqs : Create(r)
  \/ \E r \in Reqs : Return(r)
  \/ Tick

Spec == Init /\ [][Next]_vars

\* ------------------------------------------------- sequential requests
\* Requests that do not overlap: a request arrives only when no other is
\* being processed, and the clock advances only between requests.
Quiet == \A r \in Reqs : pc[r] = "idle"

BeginSeq(r) == Quiet /\ Begin(r)

TickSeq == Quiet /\ Tick

NextSeq ==
  \/ \E r \in Reqs : BeginSeq(r)
  \/ \E r \in Reqs : StoreError(r)
  \/ \E r \in Reqs : Get(r)
  \/ \E r \in Reqs : Set(r)
  \/ \E r \in Reqs : Incr(r)
  \/ \E r \in Reqs : Ttl(r)
  \/ \E r \in Reqs : CallNext(r)
  \/ \E r \in Reqs : Create(r)
  \/ \E r \in Reqs : Return(r)
  \/ TickSeq

SpecSeq == Init /\ [][NextSeq]_vars

\* ------------------------------------------- the credential/session service
limiterVars == <<redis, current, ttl, storeFailed, touched, accepted, ip>>

\* A register call reaches the endpoint (auth_router.py 47-70).
Call(r) ==
  /\ pc[r] = "idle"
  /\ nextId <= MaxUsers
  /\ \E e \in Emails : email' = [email EXCEPT ![r] = e]
  /\ password' = [password EXCEPT ![r] = "secret1"]
  /\ route' = [route EXCEPT ![r] = Path]
  /\ pc' = [pc EXCEPT ![r] = "call_next"]
  /\ UNCHANGED <<limiterVars, users, status, raised, handled, authGlobal,
                 cookieIn, subject, body, setCookie, effects>>
  /\ UNCHANGED pureVars

\* AuthService.login (139-171) behind the login endpoint (86-114): one
\* database read, then everything up to the return runs without an await.
Login(r) ==
  /\ pc[r] = "idle"
  /\ \E e \in Emails, p \in Passwords :
       LET user == rows[e]
           exc  == IF user = None THEN "NotFoundException"
                   ELSE IF ~VerifyPassword(p, Val(user).password)
                        THEN "UnauthorizedError" ELSE "none"
       IN
         /\ email' = [email EXCEPT ![r] = e]
         /\ password' = [password EXCEPT ![r] = p]
         /\ raised' = [raised EXCEPT ![r] = exc]
         /\ status' = [status EXCEPT ![r] = RouterStatus("/auth/login", exc)]
         /\ effects' = [effects EXCEPT ![r] =
                          {"store"}
                          \cup (IF user # None THEN {"verify"} ELSE {})
                          \cup (IF exc = "none" THEN {"issue"} ELSE {})]
         /\ body' = [body EXCEPT ![r] =
                       IF exc = "none"
                       THEN Some(CreateAccessToken(Val(user).id, now))
                       ELSE None]
         /\ setCookie' = [setCookie EXCEPT ![r] =
                            IF exc = "none"
                            THEN <<"set", CreateRefreshToken(Val(user).id, now)>>
                            ELSE None]
  /\ route' = [route EXCEPT ![r] = "/auth/login"]
  /\ handled' = [handled EXCEPT ![r] = TRUE]
  /\ pc' = [pc EXCEPT ![r] = "done"]
  /\ UNCHANGED <<limiterVars, users, authGlobal, cookieIn, subject>>
  /\ UNCHANGED pureVars

\* The database fails under find_by_email of login (154): the repository
\* and the service catch nothing, the login endpoint catches everything
\* (auth_router.py 108-114).
LoginDbError(r) ==
  /\ pc[r] = "idle"
  /\ \E e \in Emails, p \in Passwords :
       /\ email' = [email EXCEPT ![r] = e]
       /\ password' = [password EXCEPT ![r] = p]
  /\ route' = [route EXCEPT ![r] = "/auth/login"]
  /\ raised' = [raised EXCEPT ![r] = "SQLAlchemyError"]
  /\ status' = [status EXCEPT ![r] =
                  RouterStatus("/auth/login", "SQLAlchemyError")]
  /\ effects' = [effects EXCEPT ![r] = {"store"}]
  /\ handled' = [handled EXCEPT ![r] = TRUE]
  /\ pc' = [pc EXCEPT ![r] = "done"]
  /\ UNCHANGED <<limiterVars, users, authGlobal, cookieIn, subject, body,
                 setCookie>>
  /\ UNCHANGED pureVars

\* The database fails under find_by_email of register (123): the register
\* endpoint catches everything (auth_router.py 69-76).
RegisterDbError(r) ==
  /\ pc[r] = "call_next"
  /\ raised' = [raised EXCEPT ![r] = "SQLAlchemyError"]
  /\ status' = [status EXCEPT ![r] = RouterStatus(route[r], "SQLAlchemyError")]
  /\ effects' = [effects EXCEPT ![r] = @ \cup {"store"}]
  /\ handled' = [handled EXCEPT ![r] = TRUE]
  /\ pc' = [pc EXCEPT ![r] = "done"]
  /\ UNCHANGED <<limiterVars, users, authGlobal, email, password, route,
                 cookieIn, subject, body, setCookie>>
  /\ UNCHANGED pureVars

\* login_access without a cookie (199-201): the cookie is deleted on the
\* response before UnauthorizedError is raised
OnMissingCookieMut == None
OnMissingCookie == <<"delete">>

\* AuthService.login_access (198-203) with _get_new_tokens up to its
\* database read (90-98).
RefreshDecode(r) ==
  /\ pc[r] = "idle"
  /\ \E c \in {None} \cup {Some(t) : t \in Presentable} :
       LET result == IF c = None THEN None ELSE DecodeToken(Val(c), now)
           exc    == IF c = None \/ result = None \/ Val(result).id = 0
                     THEN "UnauthorizedError" ELSE "none"
       IN
         /\ cookieIn' = [cookieIn EXCEPT ![r] = c]
         /\ setCookie' = [setCookie EXCEPT ![r] =
                            IF c = None THEN OnMissingCookie ELSE None]
         /\ effects' = [effects EXCEPT ![r] =
                          IF c = None THEN {} ELSE {"decode"}]
         /\ raised' = [raised EXCEPT ![r] = exc]
         /\ status' = [status EXCEPT ![r] =
                         IF exc = "none" THEN 0
                         ELSE RouterStatus("/auth/login/access-token", exc)]
         /\ subject' = [subject EXCEPT ![r] =
                          IF exc = "none" THEN Some(Val(result).id) ELSE None]
         /\ pc' = [pc EXCEPT ![r] =
                     IF exc = "none" THEN "find_by_id" ELSE "done"]
  /\ route' = [route EXCEPT ![r] = "/auth/login/access-token"]
  /\ handled' = [handled EXCEPT ![r] = TRUE]
  /\ UNCHANGED <<limiterVars, users, authGlobal, email, password, body>>
  /\ UNCHANGED pureVars

\* _get_new_tokens from the result of find_by_id on (98-106) and the rest of
\* login_access (204-206).
RefreshFind(r) ==
  /\ pc[r] = "find_by_id"
  /\ LET user == FindById(Val(subject[r]))
         exc  == IF user = None THEN "NotFoundException" ELSE "none"
     IN
       /\ raised' = [raised EXCEPT ![r] = exc]
       /\ status' = [status EXCEPT ![r] = RouterStatus(route[r], exc)]
       /\ effects' = [effects EXCEPT ![r] =
                        @ \cup {"store"}
                          \cup (IF exc = "none" THEN {"issue"} ELSE {})]
       /\ body' = [body EXCEPT ![r] =
                     IF exc = "none"
                     THEN Some(CreateAccessToken(Val(user), now)) ELSE None]
       /\ setCookie' = [setCookie EXCEPT ![r] =
                          IF exc = "none"
                          THEN <<"set", CreateRefreshToken(Val(user), now)>>
                          ELSE None]
  /\ pc' = [pc EXCEPT ![r] = "done"]
  /\ UNCHANGED <<limiterVars, users, authGlobal, email, password, route,
                 handled, cookieIn, subject>>
  /\ UNCHANGED pureVars

\* _remove_refresh_token_cookie (68-75)
RemoveRefreshTokenCookieMut == None
RemoveRefreshTokenCookie == <<"delete">>

\* AuthService.logout (173-180) behind the logout endpoint (161-186); the
\* request may or may not carry the cookie, logout does not read it.
Logout(r) ==
  /\ pc[r] = "idle"
  /\ \E c \in {None} \cup {Some(t) : t \in Presentable} :
       cookieIn' = [cookieIn EXCEPT ![r] = c]
  /\ route' = [route EXCEPT ![r] = "/auth/logout"]
  /\ setCookie' = [setCookie EXCEPT ![r] = RemoveRefreshTokenCookie]
  /\ status' = [status EXCEPT ![r] = RouterStatus("/auth/logout", "none")]
  /\ handled' = [handled EXCEPT ![r] = TRUE]
  /\ pc' = [pc EXCEPT ![r] = "done"]
  /\ UNCHANGED <<limiterVars, users, authGlobal, email, password, raised,
                 subject, body, effects>>
  /\ UNCHANGED pureVars

\* get_current_user (dependencies/auth.py 43-53), the guard of the
\* protected endpoints, given a bearer token.
Guard(r) ==
  /\ pc[r] = "idle"
  /\ \E t \in Presentable :
       LET payload == DecodeToken(t, now)
           exc     == IF payload = None \/ Val(payload).id = 0
                      THEN "UnauthorizedError" ELSE "none"
       IN
         /\ cookieIn' = [cookieIn EXCEPT ![r] = Some(t)]
         /\ raised' = [raised EXCEPT ![r] = exc]
         /\ status' = [status EXCEPT ![r] = RouterStatus("/user/me", exc)]
         /\ subject' = [subject EXCEPT ![r] =
                          IF exc = "none" THEN Some(Val(payload).id) ELSE None]
  /\ route' = [route EXCEPT ![r] = "/user/me"]
  /\ effects' = [effects EXCEPT ![r] = {"decode"}]
  /\ handled' = [handled EXCEPT ![r] = TRUE]
  /\ pc' = [pc EXCEPT ![r] = "done"]
  /\ UNCHANGED <<limiterVars, users, authGlobal, email, password, body,
                 setCookie>>
  /\ UNCHANGED pureVars

\* UserService.delete (183-198) with UserRepository.delete (159-173).
DeleteUser ==
  /\ \E e \in Emails :
       /\ rows[e] # None
       /\ rows' = [rows EXCEPT ![e] = None]
       /\ users' = [users EXCEPT ![e] = 0]
  /\ UNCHANGED <<limiterVars, pc, email, status, raised, handled, now,
                 nextId, held, authReq>>
  /\ UNCHANGED pureVars

\* The client keeps a token of a response it received.
ClientKeep(r) ==
  /\ pc[r] = "done"
  /\ \E h \in (IF body[r] # None
                THEN {[id |-> Val(body[r]).id, exp |-> Val(body[r]).exp]}
                ELSE {})
               \cup
               (IF Len(setCookie[r]) = 2
                THEN {[id |-> setCookie[r][2].id, exp |-> setCookie[r][2].exp]}
                ELSE {}) :
       /\ h \notin held
       /\ Cardinality(held) < MaxHeld
       /\ held' = held \cup {h}
  /\ UNCHANGED <<limiterVars, users, pc, email, status, raised, handled,
                 now, rows, nextId, authReq>>
  /\ UNCHANGED pureVars

\* The client drops a token it kept.
ClientForget ==
  /\ \E h \in held : held' = held \ {h}
  /\ UNCHANGED <<limiterVars, users, pc, email, status, raised, handled,
                 now, rows, nextId, authReq>>
  /\ UNCHANGED pureVars

\* One unit of the token clock passes.
Advance ==
  /\ now < MaxNow
  /\ now' = now + 1
  /\ UNCHANGED <<limiterVars, users, pc, email, status, raised, handled,
                 rows, nextId, held, authReq>>
  /\ UNCHANGED pureVars

NextAuth ==
  \/ \E r \in Reqs : Call(r)
  \/ \E r \in Reqs : CallNext(r)
  \/ \E r \in Reqs : Create(r)
  \/ \E r \in Reqs : Login(r)
  \/ \E r \in Reqs : RefreshDecode(r)
  \/ \E r \in Reqs : RefreshFind(r)
  \/ \E r \in Reqs : Logout(r)
  \/ \E r \in Reqs : Guard(r)
  \/ \E r \in Reqs : Return(r)
  \/ \E r \in Reqs : ClientKeep(r)
  \/ ClientForget
  \/ DeleteUser
  \/ Advance

SpecAuth == Init /\ [][NextAuth]_vars

\* the service with a users database that can fail
NextAuthDb ==
  \/ NextAuth
  \/ \E r \in Reqs : LoginDbError(r)
  \/ \E r \in Reqs : RegisterDbError(r)

SpecAuthDb == Init /\ [][NextAuthDb]_vars

\* ---------------------------------------------------- issuing a token pair
\* create_access_token, create_refresh_token and _set_refresh_token_cookie
\* as register (132-135), login (166-169) and login_access (204-205) call
\* them, under the lifetimes the loader returned.
IssuePair(id) ==
  /\ minted' = Some([at      |-> tick,
                     access  |-> CreateToken(id,
                                   Minutes(AccessTokenExpireMinutes(ttlCfg)),
                                   Seconds(tick)),
                     refresh |-> CreateToken(id,
                                   Minutes(RefreshTokenExpireMinutes(ttlCfg)),
                                   Seconds(tick)),
                     max_age |-> RefreshTokenExpireMinutes(ttlCfg) * 60])
  /\ UNCHANGED <<limiterVars, users, pc, email, status, raised, handled,
                 authGlobal, authReq, tick, ttlCfg, request>>

\* the clock moves by one tick
TickSub ==
  /\ tick < MaxTick
  /\ tick' = tick + 1
  /\ UNCHANGED <<limiterVars, users, pc, email, status, raised, handled,
                 authGlobal, authReq, ttlCfg, minted, request>>

InitIssue ==
  /\ Constructed
  /\ \E a \in EnvValues, d \in EnvValues : ttlCfg = LoadSecurityConfig(a, d)

NextIssue ==
  \/ \E id \in 1..MaxUsers : IssuePair(id)
  \/ TickSub

SpecIssue == InitIssue /\ [][NextIssue]_vars

\* ------------------------------------------- resolving the client address
\* dispatch up to its decision to skip the limiter (126-130), with the
\* request it was given kept beside the result.
Resolve(r) ==
  /\ pc[r] = "idle"
  /\ \E f \in ForwardedValues, ri \in RealIpValues, c \in ClientValues :
       LET addr == GetClientIp(f, ri, c) IN
         /\ request' = [request EXCEPT ![r] =
                          Some([forwarded_for |-> f, real_ip |-> ri,
                                client |-> c])]
         /\ ip' = [ip EXCEPT ![r] = addr]
         /\ pc' = [pc EXCEPT ![r] =
                     IF SkipLimiter(addr) THEN "call_next" ELSE "get"]
  /\ UNCHANGED <<redis, users, email, current, ttl, status, raised,
                 storeFailed, touched, handled, accepted, authGlobal,
                 authReq, tick, ttlCfg, minted>>

\* the request is over
Forget(r) ==
  /\ pc[r] # "idle"
  /\ pc' = [pc EXCEPT ![r] = "idle"]
  /\ ip' = [ip EXCEPT ![r] = "unknown"]
  /\ request' = [request EXCEPT ![r] = None]
  /\ UNCHANGED <<redis, users, email, current, ttl, status, raised,
                 storeFailed, touched, handled, accepted, authGlobal,
                 authReq, tick, ttlCfg, minted>>

NextIp ==
  \/ \E r \in Reqs : Resolve(r)
  \/ \E r \in Reqs : Forget(r)

SpecIp == Init /\ [][NextIp]_vars

\* ---------------------------------------------------------------- claims
\* a request whose rate-limit check ran to its end without a Redis error
Admitted(r) ==
  /\ pc[r] \in {"call_next", "create", "done"}
  /\ touched[r] /\ ~storeFailed[r] /\ ttl[r] = None

Rejected(r) == ttl[r] # None

\* C1: N > Limit concurrent requests of one key in one window: exactly
\* Limit of them are admitted, under every interleaving of their Redis
\* commands (never more than Limit admissions while one counter lives).
C1_ExactlyLimitAccepted ==
  \A k \in Keys : accepted[k] <= Limit

\* C2: the count stored for a key never exceeds the limit.
C2_CountWithinLimit ==
  \A k \in Keys : redis[k].value <= Limit

\* C3: of two register calls for one identifier that both passed the
\* existence lookup, the one that does not succeed fails with
\* ConflictError and with no other kind of error.
C3_DuplicateRaceIsConflict ==
  \A r \in Reqs :
    (pc[r] = "done" /\ handled[r] /\ status[r] # 201)
      => raised[r] = "ConflictError"

\* C4: every counter present in the store carries an expiry at most Window
\* seconds ahead, so a rejected client is accepted again once it elapsed.
C4_CounterAlwaysExpires ==
  \A k \in Keys : Exists(k) => redis[k].ttl \in 1..Window

\* C5: the stored count of a key equals the number of requests admitted
\* for that key in the current window (no increment is lost).
C5_CountEqualsAccepted ==
  \A k \in Keys : Exists(k) => redis[k].value = accepted[k]

C7_FailOpen ==
  \A r \in Reqs :
    storeFailed[r] =>
      /\ pc[r] \in {"call_next", "create", "done"}
      /\ ttl[r] = None /\ status[r] # 429
      /\ pc[r] \in {"create", "done"} => handled[r]

C7_Witness ==
  \E r \in Reqs : storeFailed[r] /\ pc[r] = "done" /\ status[r] = 201

\* C8: a request whose client resolves to "unknown" is forwarded to the
\* handler and issues no Redis command.
C8_UnknownBypasses ==
  \A r \in Reqs :
    (pc[r] # "idle" /\ ip[r] = "unknown") =>
      /\ ~touched[r]
      /\ pc[r] \in {"call_next", "create", "done"}
      /\ ttl[r] = None /\ status[r] # 429
      /\ pc[r] \in {"create", "done"} => handled[r]

C8_Witness ==
  \E r \in Reqs : ip[r] = "unknown" /\ pc[r] = "done" /\ handled[r]

\* C9: a rejected request is answered 429 with a retry_after, is never
\* passed to call_next (no register step, no access to the users table),
\* and its rejection leaves the counter store as it was.
C9_RejectedStep ==
  \A r \in Reqs :
    /\ Rejected(r)' =>
         /\ status'[r] = 429
         /\ pc'[r] = "done"
         /\ ~handled'[r]
         /\ raised'[r] = "none"
    /\ (~Rejected(r) /\ Rejected(r)') =>
         /\ redis' = redis
         /\ users' = users

C9_RejectedNotForwarded == [][C9_RejectedStep]_vars

C9_Witness ==
  \E r \in Reqs :
    /\ Rejected(r) /\ status[r] = 429 /\ ~handled[r]
    /\ redis[KeyOf(r)].value >= Limit

\* C10: the users table holds at most one row per identifier.
C10_UniqueIdentifier ==
  \A e \in Emails : users[e] <= 1

C10_Witness ==
  \E r \in Reqs : raised[r] = "IntegrityError" /\ users[email[r]] = 1

\* C11: a register call whose email already has a record fails with
\* ConflictError at the lookup, before any insert: the call ends there
\* without hashing, without a token in the body, without a cookie, and the
\* table keeps exactly the one record it had.
C11_Step ==
  \A r \in Reqs :
    (pc[r] = "call_next" /\ pc'[r] # "call_next" /\ rows[email[r]] # None)
      => /\ pc'[r] = "done"
         /\ raised'[r] = "ConflictError"
         /\ body'[r] = None
         /\ setCookie'[r] = None
         /\ effects'[r] \cap {"hash", "issue"} = {}
         /\ rows' = rows
         /\ users' = users
         /\ users[email[r]] = 1

C11_DuplicateRejected == [][C11_Step]_vars

C11_Witness ==
  \E r \in Reqs :
    /\ pc[r] = "done"
    /\ route[r] = Path
    /\ raised[r] = "ConflictError"
    /\ rows[email[r]] # None
    /\ users[email[r]] = 1
    /\ body[r] = None
    /\ setCookie[r] = None

\* C12: a registration refused with ConflictError is answered with HTTP
\* status 409.
C12_DuplicateIs409 ==
  \A r \in Reqs :
    (pc[r] = "done" /\ route[r] = Path /\ raised[r] = "ConflictError")
      => status[r] = 409

\* C13: a token presented at or after its expiry, the instant now = exp
\* included, is refused by the guard of the protected endpoints and by the
\* refresh from the cookie, whatever its signature.
C13_Step ==
  \A r \in Reqs :
    ( /\ pc[r] = "idle"
      /\ pc'[r] # "idle"
      /\ route'[r] \in {"/auth/login/access-token", "/user/me"}
      /\ cookieIn'[r] # None
      /\ Val(cookieIn'[r]).exp <= now )
      => raised'[r] = "UnauthorizedError"

C13_ExpiredRejected == [][C13_Step]_vars

Refresh == "/auth/login/access-token"

RefreshSucceeded(r) ==
  /\ pc[r] = "done"
  /\ route[r] = Refresh
  /\ raised[r] = "none"
  /\ body[r] # None
  /\ Len(setCookie[r]) = 2

\* C14: a refresh token is accepted as long as now < exp and its subject
\* has a record: nothing the service keeps changes that, neither an earlier
\* refresh made with the same token nor a logout.  A refresh presenting a
\* well-signed token before its expiry passes the decoding, and the lookup
\* of an existing subject then answers with new tokens.
C14_Step ==
  \A r \in Reqs :
    /\ ( /\ pc[r] = "idle"
         /\ pc'[r] # "idle"
         /\ route'[r] = Refresh
         /\ cookieIn'[r] # None
         /\ Val(cookieIn'[r]).sig = "ok"
         /\ now < Val(cookieIn'[r]).exp )
         => /\ pc'[r] = "find_by_id"
            /\ raised'[r] = "none"
            /\ subject'[r] = Some(Val(cookieIn'[r]).id)
    /\ ( /\ pc[r] = "find_by_id"
         /\ pc'[r] = "done"
         /\ FindById(Val(subject[r])) # None )
         => /\ raised'[r] = "none"
            /\ status'[r] = 200
            /\ body'[r] = Some(CreateAccessToken(Val(subject[r]), now))
            /\ setCookie'[r] = <<"set", CreateRefreshToken(Val(subject[r]), now)>>

C14_RefreshTokenReusable == [][C14_Step]_vars

\* two answered refreshes of one and the same token, the second made at a
\* later time than the first
C14_Witness ==
  \E q, r \in Reqs :
    /\ q # r
    /\ RefreshSucceeded(q)
    /\ RefreshSucceeded(r)
    /\ cookieIn[q] = cookieIn[r]
    /\ setCookie[q][2].exp < setCookie[r][2].exp

\* C15: an answered refresh returns a refresh token that differs from the
\* one presented, however soon after the issue of the presented one.
C15_NewRefreshDiffers ==
  \A r \in Reqs :
    (RefreshSucceeded(r) /\ cookieIn[r] # None)
      => setCookie[r][2] # Val(cookieIn[r])

\* C16: a refresh whose cookie token does not decode (expired, signed with
\* another key, or no token at all) fails with UnauthorizedError, deletes
\* the cookie on the response and issues no token.
C16_BadTokenClearsCookie ==
  \A r \in Reqs :
    ( /\ pc[r] = "done"
      /\ route[r] = Refresh
      /\ cookieIn[r] # None
      /\ "decode" \in effects[r]
      /\ subject[r] = None )
      => /\ raised[r] = "UnauthorizedError"
         /\ setCookie[r] = <<"delete">>
         /\ body[r] = None

\* C17: a refresh without a cookie deletes the cookie on the response and
\* fails with UnauthorizedError; it decodes nothing, issues nothing and
\* does not touch the users table.
C17_Step ==
  \A r \in Reqs :
    ( /\ pc[r] = "idle"
      /\ pc'[r] # "idle"
      /\ route'[r] = Refresh
      /\ cookieIn'[r] = None )
      => /\ pc'[r] = "done"
         /\ raised'[r] = "UnauthorizedError"
         /\ setCookie'[r] = <<"delete">>
         /\ body'[r] = None
         /\ subject'[r] = None
         /\ effects'[r] = {}
         /\ rows' = rows
         /\ users' = users

C17_NoCookie == [][C17_Step]_vars

C17_Witness ==
  \E r \in Reqs :
    /\ pc[r] = "done"
    /\ route[r] = Refresh
    /\ cookieIn[r] = None
    /\ raised[r] = "UnauthorizedError"
    /\ setCookie[r] = <<"delete">>
    /\ effects[r] = {}

\* C18: a refresh whose token decodes but whose subject has no record any
\* more fails with the not-found error and issues nothing: no token in the
\* body and no cookie on the response.
C18_Step ==
  \A r \in Reqs :
    ( /\ pc[r] = "find_by_id"
      /\ pc'[r] # "find_by_id"
      /\ \A e \in Emails :
           rows[e] = None \/ Val(rows[e]).id # Val(subject[r]) )
      => /\ pc'[r] = "done"
         /\ raised'[r] = "NotFoundException"
         /\ body'[r] = None
         /\ setCookie'[r] = None
         /\ "issue" \notin effects'[r]

RefreshRefused(r) ==
  /\ pc[r] = "done"
  /\ route[r] = Refresh
  /\ cookieIn[r] # None
  /\ "decode" \in effects[r]
  /\ subject[r] = None
  /\ raised[r] = "UnauthorizedError"

\* C19: once a refresh has been refused because its token did not decode
\* (bad signature or expired), every later refresh with the same token is
\* refused too and issues nothing; new tokens then come only from a
\* register or a login.
C19_Step ==
  \A q, r \in Reqs :
    ( /\ q # r
      /\ RefreshRefused(q)
      /\ pc[r] = "idle"
      /\ pc'[r] # "idle"
      /\ route'[r] = Refresh
      /\ cookieIn'[r] = cookieIn[q] )
      => /\ pc'[r] = "done"
         /\ raised'[r] = "UnauthorizedError"
         /\ body'[r] = None
         /\ Len(setCookie'[r]) < 2

C19_RevokedIsTerminal == [][C19_Step]_vars

\* an expired token refused twice
C19_Witness ==
  \E q, r \in Reqs :
    /\ q # r
    /\ RefreshRefused(q)
    /\ RefreshRefused(r)
    /\ cookieIn[q] = cookieIn[r]
    /\ Val(cookieIn[q]).sig = "ok"
    /\ Val(cookieIn[q]).exp < now

\* C20: login fails with the not-found error when the email has no record
\* and with UnauthorizedError when the password does not match the stored
\* hash, issuing no token and no cookie in either case; otherwise it
\* returns an access token and sets a refresh-token cookie, both with the
\* record's id as subject.
C20_Step ==
  \A r \in Reqs :
    ( /\ pc[r] = "idle"
      /\ pc'[r] # "idle"
      /\ route'[r] = "/auth/login" )
      => LET user == rows[email'[r]] IN
         /\ pc'[r] = "done"
         /\ rows' = rows
         /\ IF user = None
            THEN /\ raised'[r] = "NotFoundException"
                 /\ body'[r] = None
                 /\ setCookie'[r] = None
                 /\ "issue" \notin effects'[r]
            ELSE IF Val(user).password # HashPassword(password'[r])
            THEN /\ raised'[r] = "UnauthorizedError"
                 /\ body'[r] = None
                 /\ setCookie'[r] = None
                 /\ "issue" \notin effects'[r]
            ELSE /\ raised'[r] = "none"
                 /\ body'[r] # None
                 /\ Val(body'[r]).id = Val(user).id
                 /\ Val(body'[r]).exp = now + AccessTtl
                 /\ Len(setCookie'[r]) = 2
                 /\ setCookie'[r][1] = "set"
                 /\ setCookie'[r][2].id = Val(user).id
                 /\ setCookie'[r][2].exp = now + RefreshTtl

C20_Login == [][C20_Step]_vars

\* a login refused for its password next to a login answered with tokens
C20_Witness ==
  \E q, r \in Reqs :
    /\ pc[q] = "done" /\ route[q] = "/auth/login"
    /\ raised[q] = "UnauthorizedError"
    /\ body[q] = None /\ setCookie[q] = None
    /\ pc[r] = "done" /\ route[r] = "/auth/login"
    /\ raised[r] = "none"
    /\ rows[email[r]] # None
    /\ Val(body[r]).id = Val(rows[email[r]]).id
    /\ Len(setCookie[r]) = 2

\* C21: both failing runs of login do the password verification before
\* they fail: the run for an email without a record verifies a password
\* just as the run for a wrong password does.
C21_FailuresVerify ==
  \A r \in Reqs :
    ( /\ pc[r] = "done"
      /\ route[r] = "/auth/login"
      /\ raised[r] \in {"NotFoundException", "UnauthorizedError"} )
      => "verify" \in effects[r]

\* C22: a failure of the users database during register or login is
\* answered with a 5xx status, never with 401 and never with a success.
C22_StoreFailureIs5xx ==
  \A r \in Reqs :
    ( /\ pc[r] = "done"
      /\ route[r] \in {Path, "/auth/login"}
      /\ raised[r] = "SQLAlchemyError" )
      => status[r] \in 500..599

\* C23: a refresh cookie does not outlive the token it carries: the
\* instant the cookie is set plus its max_age is no later than the exp of
\* the refresh token in it, and max_age is the refresh lifetime in seconds.
C23_CookieWithinToken ==
  minted # None =>
    /\ Val(minted).max_age = Minutes(RefreshTokenExpireMinutes(ttlCfg))
    /\ Val(minted).at + Val(minted).max_age * Sub
         <= Val(minted).refresh.exp * Sub

\* C24: under every configuration the loader accepts, a token's exp is
\* later than the instant it was issued.
C24_ExpiresAfterIssue ==
  minted # None =>
    /\ Val(minted).access.exp * Sub > Val(minted).at
    /\ Val(minted).refresh.exp * Sub > Val(minted).at

\* C25: a login that succeeds with the credentials of an earlier
\* successful register returns an access token different from the one the
\* register returned, however soon it follows.
C25_LoginTokenDiffers ==
  \A q, r \in Reqs :
    ( /\ pc[q] = "done" /\ route[q] = Path
      /\ raised[q] = "none" /\ body[q] # None
      /\ pc[r] = "done" /\ route[r] = "/auth/login"
      /\ raised[r] = "none" /\ body[r] # None
      /\ email[r] = email[q]
      /\ password[r] = password[q] )
      => body[r] # body[q]

\* C26: logout never fails and always ends with the refresh cookie
\* deleted on the response, with or without a cookie in the request and
\* whatever was called before; it reads no record, writes none and issues
\* no token.
C26_Step ==
  \A r \in Reqs :
    ( /\ pc[r] = "idle"
      /\ pc'[r] # "idle"
      /\ route'[r] = "/auth/logout" )
      => /\ pc'[r] = "done"
         /\ raised'[r] = "none"
         /\ status'[r] = 200
         /\ setCookie'[r] = <<"delete">>
         /\ body'[r] = None
         /\ effects'[r] = {}
         /\ rows' = rows
         /\ users' = users

C27_AccessTokenNotRefresh ==
  \A q, r \in Reqs :
    ( /\ q # r
      /\ pc[q] = "done"
      /\ body[q] # None
      /\ Val(body[q]).exp < RefreshTtl
      /\ RefreshSucceeded(r) )
      => cookieIn[r] # body[q]

\* C28: every rejection carries a retry_after between 1 and the window
\* length, never the reply TTL gives for a missing key or for a key without
\* expiry.
C28_RetryAfterInWindow ==
  \A r \in Reqs :
    Rejected(r) => Val(ttl[r]) \in 1..Window

\* C29: the deadline of a counter is set by the request that creates it
\* and never moved afterwards: while a counter exists, no step makes its
\* remaining time longer.
C29_Step ==
  \A k \in Keys :
    (Exists(k) /\ redis'[k].ttl # KeyMissing)
      => redis'[k].ttl <= redis[k].ttl

C29_DeadlineFixed == [][C29_Step]_vars

\* C30: only a request without a connection peer (and without address
\* headers) resolves to "unknown": whatever its headers say, a request
\* that has a peer is not given the identifier that skips the limiter.
C30_PeerNeverUnknown ==
  \A r \in Reqs :
    (request[r] # None /\ Val(request[r]).client # None)
      => /\ ip[r] # "unknown"
         /\ pc[r] # "call_next"

====
